---------------------------- MODULE Spec2Model ----------------------------
(***************************************************************************)
(* apollo-gatherer: the paginated fetch / retry / dedup pipeline.          *)
(*                                                                         *)
(*   api.py  ApolloClient.search_people  the paginator (a generator)       *)
(*           ApolloClient._request       the transport with 429 retries    *)
(*   cli.py  main, _gather_people_records, _load_seen_emails,              *)
(*           _save_seen_emails, _write_csv                                 *)
(*                                                                         *)
(* Strings are sequences of one-character strings.  Durations are in       *)
(* tenths of a second, so that the default backoff factor 1.5 is the       *)
(* integer 15.                                                             *)
(***************************************************************************)
EXTENDS Integers, Sequences, FiniteSets

VARIABLES
    cfg,                  \* the run's parameters (CLI arguments, client fields)
    provider,             \* what the remote API may answer (its repertoire)
    history,              \* TRUE: the logs below are kept and the cursor is exact
    run,                  \* number of the current process invocation
    pc,                   \* position of main / _gather_people_records
    seenFile,             \* the seen-emails file: whether it exists, its text
    outFile,              \* the output CSV: whether it exists, its rows
    seen_emails_existing, \* main: the set _load_seen_emails returned
    seen_emails,          \* _gather_people_records: seen_emails
    newly_seen,           \* _gather_people_records: newly_seen
    results,              \* _gather_people_records: results
    person,               \* the record the for loop holds
    gpc,                  \* position of the search_people generator
    page,                 \* search_people: page
    people,               \* search_people: people of the current response
    total_pages,          \* search_people: total_pages of the current response
    idx,                  \* search_people: next index of `for person in people`
    attempt,              \* _request: attempt
    failure,              \* the exception that ended the run, or NoFailure
    httpLog,              \* every HTTP request sent in this run, with its answer
    sleepLog,             \* every time.sleep call of this run
    fetched,              \* every page _request returned to search_people
    yielded,              \* every record search_people yielded
    prevExport,           \* normalized emails the previous run exported
    writes,               \* the files this run has written so far
    filesAtStart,         \* the two files as this run found them
    probe                 \* a trial of the seen-file functions on their own

vars == <<cfg, provider, history, run, pc, seenFile, outFile,
          seen_emails_existing, seen_emails, newly_seen, results, person,
          gpc, page, people, total_pages, idx, attempt, failure,
          httpLog, sleepLog, fetched, yielded, prevExport,
          writes, filesAtStart, probe>>

mainVars == <<seen_emails_existing, seen_emails, newly_seen, results, person>>
genVars  == <<gpc, page, people, total_pages, idx, attempt>>
logVars  == <<httpLog, sleepLog, fetched, yielded>>
fileVars == <<seenFile, outFile, writes>>
envVars  == <<cfg, provider, history, run, prevExport, filesAtStart, probe>>
progVars == <<cfg, provider, history, run, prevExport, filesAtStart, pc,
              failure, mainVars, genVars, logVars, fileVars>>

-----------------------------------------------------------------------------
(* Bounds of the model *)

\* largest max_pages / total_pages value tried
MaxPages == 2
\* largest max_contacts tried
MaxContacts == 2
\* largest max_retries tried
MaxRetries == 2
\* process invocations in a row
MaxRuns == 2
\* longest email, and largest set of emails, given to the seen-file functions
MaxEmailLen == 3
MaxEmails == 2

-----------------------------------------------------------------------------
(* Program constants *)

\* Optional[int] = None (max_pages, max_contacts, total_pages)
None == -1
\* ApolloClient.backoff_factor = 1.5, in tenths of a second
backoff_factor == 15
\* tenths of a second per second: float("2") seconds = 20 tenths
Tenths == 10

NoFailure == "none"

-----------------------------------------------------------------------------
(* Strings: str.strip, str.lower, str.splitlines, sorted, "\n".join *)

Min(a, b) == IF a < b THEN a ELSE b

\* str.isspace for the characters of the model
IsSpace(c) == c \in {" ", "\n"}

\* the line boundaries str.splitlines splits at
IsLineBreak(c) == c = "\n"

LowerChar(c) ==
    CASE c = "A" -> "a"
      [] c = "B" -> "b"
      [] OTHER   -> c

\* str.lower
RECURSIVE Lower(_)
Lower(s) == IF s = <<>> THEN <<>> ELSE <<LowerChar(Head(s))>> \o Lower(Tail(s))

RECURSIVE LStrip(_)
LStrip(s) ==
    IF s = <<>> THEN <<>>
    ELSE IF IsSpace(Head(s)) THEN LStrip(Tail(s))
    ELSE s

RECURSIVE RStrip(_)
RStrip(s) ==
    IF s = <<>> THEN <<>>
    ELSE IF IsSpace(s[Len(s)]) THEN RStrip(SubSeq(s, 1, Len(s) - 1))
    ELSE s

\* str.strip
Strip(s) == RStrip(LStrip(s))

\* email.strip().lower()
Normalize(s) == Lower(Strip(s))

\* code point order of the characters of the model
CharOrd(c) ==
    CASE c = "\n" -> 10
      [] c = " "  -> 32
      [] c = "A"  -> 65
      [] c = "B"  -> 66
      [] c = "a"  -> 97
      [] c = "b"  -> 98
      [] OTHER    -> 0

\* s < t for Python strings
RECURSIVE StrLess(_, _)
StrLess(s, t) ==
    IF t = <<>> THEN FALSE
    ELSE IF s = <<>> THEN TRUE
    ELSE IF CharOrd(Head(s)) # CharOrd(Head(t))
         THEN CharOrd(Head(s)) < CharOrd(Head(t))
    ELSE StrLess(Tail(s), Tail(t))

\* str.splitlines: the lines of a text, a final line break adding no line
RECURSIVE SplitLinesFrom(_, _)
SplitLinesFrom(text, line) ==
    IF text = <<>> THEN (IF line = <<>> THEN <<>> ELSE <<line>>)
    ELSE IF IsLineBreak(Head(text))
         THEN <<line>> \o SplitLinesFrom(Tail(text), <<>>)
    ELSE SplitLinesFrom(Tail(text), Append(line, Head(text)))

SplitLines(text) == SplitLinesFrom(text, <<>>)

\* "\n".join(lines)
RECURSIVE JoinLines(_)
JoinLines(lines) ==
    IF lines = <<>> THEN <<>>
    ELSE IF Len(lines) = 1 THEN lines[1]
    ELSE lines[1] \o <<"\n">> \o JoinLines(Tail(lines))

\* sorted(email.strip().lower() for email in emails if email): the
\* normalized value of every non-empty member, in ascending order (one
\* entry per member, so equal values of different members both appear)
RECURSIVE SortedNormalized(_)
SortedNormalized(emails) ==
    LET S == {e \in emails : e # <<>>}
    IN IF S = {} THEN <<>>
       ELSE LET m == CHOOSE x \in S : \A y \in S :
                         \/ Normalize(x) = Normalize(y)
                         \/ StrLess(Normalize(x), Normalize(y))
            IN <<Normalize(m)>> \o SortedNormalized(S \ {m})


-----------------------------------------------------------------------------
(* The seen-emails file and the output file *)

\* no file at the path (a file that cannot be read is treated alike,
\* cli.py:202-203)
AbsentFile == [exists |-> FALSE, text |-> <<>>]
TextFile(t) == [exists |-> TRUE, text |-> t]
AbsentCsv == [exists |-> FALSE, rows |-> <<>>]

\* range of a sequence
Range(s) == {s[i] : i \in 1..Len(s)}

\* cli._load_seen_emails: FileNotFoundError gives set(); otherwise every
\* line, stripped and lower-cased, that is not empty
load_seen_emails(file) ==
    IF ~file.exists THEN {}
    ELSE {Normalize(l) : l \in {x \in Range(SplitLines(file.text)) : Normalize(x) # <<>>}}

\* cli._save_seen_emails: the text path.write_text writes
save_seen_emails(emails) ==
    LET sorted_emails == SortedNormalized(emails)
    IN TextFile(JoinLines(sorted_emails)
                \o (IF sorted_emails # <<>> THEN <<"\n">> ELSE <<>>))

\* cli._write_csv: the header row and one row per record (the header is
\* implicit: a file that exists with no rows holds the header alone)
write_csv(records) == [exists |-> TRUE, rows |-> records]

-----------------------------------------------------------------------------
(* Provider records and responses *)

\* A raw record.  An empty string stands for a field that is missing, null
\* or "": `person.get("email") or person.get("primary_email")` and
\* `if not email` treat the three alike.  The other fields (first_name,
\* last_name, title, organization) are copied into the row and decide
\* nothing; they are taken to be well-formed and left out.
Person(e, p) == [email |-> e, primary_email |-> p]
NoPerson == Person(<<>>, <<>>)

PA     == Person(<<"a">>, <<>>)
PB     == Person(<<"b">>, <<>>)
PAup   == Person(<<" ", "A">>, <<>>)
PPrim  == Person(<<>>, <<"B", " ">>)
PBlank == Person(<<" ">>, <<"b">>)
PLines == Person(<<"a", "\n", "b">>, <<>>)

\* all record lists of at most n records over a set of records
RECURSIVE SeqsUpTo(_, _)
SeqsUpTo(S, n) ==
    IF n = 0 THEN {<<>>}
    ELSE LET shorter == SeqsUpTo(S, n - 1)
         IN shorter \cup {Append(q, x) : q \in {r \in shorter : Len(r) = n - 1}, x \in S}

\* the Retry-After header of a 429 response
NoHeader == [present |-> FALSE, text |-> <<>>]
Header(t) == [present |-> TRUE, text |-> t]

DigitVal(c) ==
    CASE c = "0" -> 0 [] c = "1" -> 1 [] c = "2" -> 2 [] c = "3" -> 3
      [] c = "4" -> 4 [] c = "5" -> 5 [] c = "6" -> 6 [] c = "7" -> 7
      [] c = "8" -> 8 [] c = "9" -> 9 [] OTHER -> -1

IsDigits(t) == t # <<>> /\ \A i \in 1..Len(t) : DigitVal(t[i]) >= 0

RECURSIVE DigitsVal(_)
DigitsVal(t) ==
    IF t = <<>> THEN 0 ELSE DigitsVal(SubSeq(t, 1, Len(t) - 1)) * 10 + DigitVal(t[Len(t)])

\* float(retry_after) succeeds.  Over the characters of the model (digits,
\* "-", letters): an optional sign and digits.  Anything else (a word, an
\* HTTP-date) raises ValueError.
FloatOk(t) == IF t # <<>> /\ Head(t) = "-" THEN IsDigits(Tail(t)) ELSE IsDigits(t)

\* float(retry_after), in tenths of a second
FloatTenths(t) ==
    IF Head(t) = "-" THEN 0 - DigitsVal(Tail(t)) * Tenths ELSE DigitsVal(t) * Tenths

-----------------------------------------------------------------------------
(* The decisions of the code *)

\* the cap compared one page late
PageCapReached_late(max_pages, p) == max_pages # None /\ p > max_pages + 1

\* no cap at all
PageCapReached_never(max_pages, p) == FALSE

\* api.py:103  if max_pages is not None and page > max_pages: break
PageCapReached(max_pages, p) == max_pages # None /\ p > max_pages

\* every server error taken for a rate limit
IsRateLimit_wide(status) == status >= 429

\* api.py:244  if response.status_code == 429
IsRateLimit(status) == status = 429

\* api.py:258  if response.status_code >= 400
IsErrorStatus(status) == status >= 400

\* api.py:245  if attempt > self.max_retries: raise
RetriesExhausted(att, max_retries) == att > max_retries

\* the backoff exponent counted from attempt instead of attempt - 1
RetryDelay_exponent(hdr, att) ==
    IF hdr.present THEN FloatTenths(hdr.text)
    ELSE backoff_factor * (2 ^ att)

\* api.py:250-254  the delay of a retried 429, in tenths of a second
RetryDelay(hdr, att) ==
    IF hdr.present THEN FloatTenths(hdr.text)
    ELSE backoff_factor * (2 ^ (att - 1))

\* api.py:252,255  float() and time.sleep() both accept the value
DelayAccepted(hdr) == hdr.present => (FloatOk(hdr.text) /\ FloatTenths(hdr.text) >= 0)

\* an empty page does not stop the loop
PageEmpty_never(ps) == FALSE

\* api.py:115  if not people: break
PageEmpty(ps) == ps = <<>>

\* the page yielded from its end
Yield_reversed(ps, i) == ps[Len(ps) + 1 - i]

\* api.py:118-119  the i-th record the for loop yields
Yield(ps, i) == ps[i]

\* the hint compared with > instead of >=
LastPage_strict(tp, p) == tp # None /\ p > tp

\* api.py:123  if total_pages is not None and page >= total_pages: break
LastPage(tp, p) == tp # None /\ p >= tp

\* the cursor advanced by two
NextPage_skip(p) == p + 2

\* api.py:126  page += 1 (with the logs off, every cursor above MaxPages is
\* kept as MaxPages + 1: the code only compares page with max_pages and
\* total_pages, which are at most MaxPages)
NextPage(p) == IF history THEN p + 1 ELSE Min(p + 1, MaxPages + 1)

\* only the email field is read
EmailOf_noFallback(p) == p.email

\* cli.py:250  person.get("email") or person.get("primary_email")
EmailOf(p) == IF p.email # <<>> THEN p.email ELSE p.primary_email

\* the email recorded as received
SeenKey_raw(email) == email

\* cli.py:254-257  normalized = email.strip().lower() is what is added to
\* seen_emails and newly_seen
SeenKey(email) == Normalize(email)

\* the email compared as received, not normalized
ShouldEmit_raw(email, seen) ==
    /\ email # <<>>
    /\ Normalize(email) # <<>>
    /\ email \notin seen

\* cli.py:251-255  the record is kept
ShouldEmit(email, seen) ==
    /\ email # <<>>
    /\ Normalize(email) # <<>>
    /\ Normalize(email) \notin seen

\* cli.py:270  if max_contacts is not None and len(results) >= max_contacts
ContactsReached(max_contacts, n) == max_contacts # None /\ n >= max_contacts

\* a log with one more entry, when logs are kept
Log(log, e) == IF history THEN Append(log, e) ELSE log


-----------------------------------------------------------------------------
(* Initial states *)

\* the state of a process that has just started, given its surroundings
Fresh ==
    /\ pc = "load"
    /\ seen_emails_existing = {}
    /\ seen_emails = {}
    /\ newly_seen = {}
    /\ results = <<>>
    /\ person = NoPerson
    /\ gpc = "idle"
    /\ page = 1
    /\ people = <<>>
    /\ total_pages = None
    /\ idx = 1
    /\ attempt = 0
    /\ failure = NoFailure
    /\ httpLog = <<>>
    /\ sleepLog = <<>>
    /\ fetched = <<>>
    /\ yielded = <<>>

\* the two files of a run, as a pair
FilesNow(seen, out) == [seen |-> seen, out |-> out]

\* no trial of the seen-file functions is under way
NoProbe ==
    [stage |-> "off", emails |-> {}, saved |-> AbsentFile,
     loaded |-> {}, resaved |-> AbsentFile]

Configs(maxPages, maxContacts, maxRetries, delays) ==
    [max_pages : maxPages, max_contacts : maxContacts,
     max_retries : maxRetries, request_delay : delays]

StartIn(configs, providers, files, logs) ==
    /\ cfg \in configs
    /\ provider \in providers
    /\ history = logs
    /\ run = 1
    /\ seenFile \in files
    /\ outFile = AbsentCsv
    /\ prevExport = {}
    /\ writes = {}
    /\ filesAtStart = FilesNow(seenFile, outFile)
    /\ probe = NoProbe
    /\ Fresh

\* The whole pipeline, run after run: records whose emails differ in case,
\* in surrounding blanks, in the field they come from and in line breaks;
\* a seen-file that is absent or holds earlier emails.
PipelineProvider ==
    [pages    |-> {<<>>, <<PA, PAup>>, <<PPrim, PLines>>, <<PBlank, PB>>},
     hints    |-> {None},
     statuses |-> {429, 500},
     headers  |-> {NoHeader},
     faults   |-> {"exception", "nonjson"}]

Init ==
    StartIn(Configs({1, MaxPages}, {None} \cup (0..MaxContacts), {0}, {0}),
            {PipelineProvider},
            {AbsentFile, TextFile(<<" ", "B", "\n", "\n">>)},
            TRUE)

\* The paginator: pages of plain records, every total_pages hint, every
\* kind of failure, no retry.
PagingProvider ==
    [pages    |-> {<<>>, <<PB>>, <<PA, PB>>},
     hints    |-> {None} \cup (0..MaxPages),
     statuses |-> {429, 500},
     headers  |-> {NoHeader},
     faults   |-> {"exception", "nonjson"}]

InitPaging ==
    StartIn(Configs({None} \cup (0..MaxPages), {None}, {0}, {0, Tenths}),
            {PagingProvider}, {AbsentFile}, TRUE)

\* The transport: Retry-After headers that are absent, numeric, not a
\* number and negative; every retry budget; pages of at most one record.
RetryProvider ==
    [pages    |-> {<<>>, <<PA>>},
     hints    |-> {None},
     statuses |-> {429, 500},
     headers  |-> {NoHeader, Header(<<"2">>), Header(<<"x">>), Header(<<"-", "1">>)},
     faults   |-> {"exception", "nonjson"}]

InitRetry ==
    StartIn(Configs(0..MaxPages, {None}, 0..MaxRetries, {0}),
            {RetryProvider}, {AbsentFile}, TRUE)

\* Termination: the logs are off and the cursor saturates, so that a
\* paginator that never stops is a cycle of states.
FairProvider ==
    [pages    |-> {<<>>, <<PA>>},
     hints    |-> {None} \cup (0..MaxPages),
     statuses |-> {429, 500},
     headers  |-> {NoHeader},
     faults   |-> {"exception", "nonjson"}]

InitFair ==
    StartIn(Configs({None} \cup (0..MaxPages), {None, 1}, {1}, {0}),
            {FairProvider}, {AbsentFile}, FALSE)

-----------------------------------------------------------------------------
(* main and _gather_people_records (cli.py) *)

\* cli.py:144-145  seen_emails_existing = _load_seen_emails(path)
LoadSeen ==
    /\ pc = "load"
    /\ seen_emails_existing' = load_seen_emails(seenFile)
    /\ pc' = "gather"
    /\ UNCHANGED <<seen_emails, newly_seen, results, person>>
    /\ UNCHANGED <<genVars, logVars, fileVars, envVars, failure>>

\* cli.py:236-249  the sets and the list are set up and search_people is
\* called: a generator whose cursor starts at 1 (api.py:101)
GatherStart ==
    /\ pc = "gather"
    /\ seen_emails' = {Normalize(e) : e \in {x \in seen_emails_existing : x # <<>>}}
    /\ newly_seen' = {}
    /\ results' = <<>>
    /\ gpc' = "top"
    /\ page' = 1
    /\ pc' = "pull"
    /\ UNCHANGED <<seen_emails_existing, person, people, total_pages, idx, attempt>>
    /\ UNCHANGED <<logVars, fileVars, envVars, failure>>

\* the generator returns: StopIteration ends the for loop of
\* _gather_people_records, which returns (cli.py:275)
GenReturns ==
    /\ gpc' = "done"
    /\ pc' = "write_csv"

\* cli.py:272-273 with the exception swallowed: main goes on to write
Aborts_swallowed(why) ==
    /\ gpc' = "raised"
    /\ pc' = "write_csv"
    /\ failure' = why

\* an ApolloError leaves _request and search_people and becomes SystemExit
\* in _gather_people_records (cli.py:272-273)
Aborts(why) ==
    /\ gpc' = "raised"
    /\ pc' = "aborted"
    /\ failure' = why

\* cli.py:250-271  the body of the for loop, for the record just yielded
Body ==
    /\ pc = "body"
    /\ LET email == EmailOf(person)
       IN IF ShouldEmit(email, seen_emails)
          THEN /\ seen_emails' = seen_emails \cup {SeenKey(email)}
               /\ newly_seen' = newly_seen \cup {SeenKey(email)}
               /\ results' = Append(results, [email |-> email])
               /\ IF ContactsReached(cfg.max_contacts, Len(results) + 1)
                  THEN /\ pc' = "write_csv"
                       /\ gpc' = "closed"
                  ELSE /\ pc' = "pull"
                       /\ gpc' = gpc
          ELSE /\ pc' = "pull"
               /\ UNCHANGED <<seen_emails, newly_seen, results, gpc>>
    /\ UNCHANGED <<seen_emails_existing, person>>
    /\ UNCHANGED <<page, people, total_pages, idx, attempt>>
    /\ UNCHANGED <<logVars, fileVars, envVars, failure>>

\* cli.py:172  _write_csv(output_path, records)
WriteCsv ==
    /\ pc = "write_csv"
    /\ outFile' = write_csv(results)
    /\ writes' = writes \cup {"output"}
    /\ pc' = "save"
    /\ UNCHANGED <<mainVars, genVars, logVars, seenFile, envVars, failure>>

\* cli.py:174  if newly_seen:
ShouldSave_always(new) == TRUE

ShouldSave(new) == new # {}

\* cli.py:174-177  the seen-file is written when newly_seen is not empty
SaveSeen ==
    /\ pc = "save"
    /\ IF ShouldSave(newly_seen)
       THEN /\ seenFile' = save_seen_emails(seen_emails_existing \cup newly_seen)
            /\ writes' = writes \cup {"seen"}
       ELSE UNCHANGED <<seenFile, writes>>
    /\ pc' = "done"
    /\ UNCHANGED <<mainVars, genVars, logVars, outFile, envVars, failure>>

-----------------------------------------------------------------------------
(* search_people and _request (api.py) *)

\* the generator prefetching while the consumer is still in its loop body
ConsumerWaiting_eager == pc \in {"pull", "body"}

\* cli.py:241  the generator's code runs only inside next(), which the for
\* loop of _gather_people_records calls when it wants the next record
ConsumerWaiting == pc = "pull"

\* the counter kept from the call before
NewAttempt_kept(att) == att

\* api.py:229  attempt = 0 at the start of every _request call
NewAttempt(att) == 0

\* api.py:102-113  the head of the loop: the page cap, else _request starts
\* with attempt = 0 (api.py:229).  While the logs are kept, pages up to
\* MaxPages + 1 are explored.
GenTop ==
    /\ ConsumerWaiting
    /\ gpc = "top"
    /\ IF PageCapReached(cfg.max_pages, page)
       THEN /\ GenReturns
            /\ UNCHANGED attempt
       ELSE /\ history => page <= MaxPages + 1
            /\ gpc' = "request"
            /\ attempt' = NewAttempt(attempt)
            /\ pc' = pc
    /\ UNCHANGED <<page, people, total_pages, idx>>
    /\ UNCHANGED <<mainVars, logVars, fileVars, envVars, failure>>

\* _request is about to send an HTTP request
CanRequest ==
    /\ ConsumerWaiting
    /\ gpc = "request"

Sent(status, hdr) ==
    Log(httpLog, [page |-> page, attempt |-> attempt + 1,
                  status |-> status, retry_after |-> hdr])

\* api.py:232-242  session.request raises: ApolloError, no retry
RequestException ==
    /\ CanRequest
    /\ "exception" \in provider.faults
    /\ attempt' = attempt + 1
    /\ httpLog' = Sent(0, NoHeader)
    /\ Aborts("ApolloError: transport")
    /\ UNCHANGED <<page, people, total_pages, idx>>
    /\ UNCHANGED <<mainVars, sleepLog, fetched, yielded, fileVars, envVars>>

\* api.py:244-265  an error status.  429: give up after max_retries
\* retries, else sleep and try again; float() or time.sleep() may raise
\* ValueError, which nothing catches.  Any other status >= 400: ApolloError,
\* no retry.
RequestRejected ==
    /\ CanRequest
    /\ \E status \in provider.statuses, hdr \in provider.headers :
        /\ IsRateLimit(status) \/ IsErrorStatus(status)
        /\ ~IsRateLimit(status) => hdr = NoHeader
        /\ attempt' = attempt + 1
        /\ httpLog' = Sent(status, hdr)
        /\ IF ~IsRateLimit(status)
           THEN /\ Aborts("ApolloError: status")
                /\ UNCHANGED sleepLog
           ELSE IF RetriesExhausted(attempt + 1, cfg.max_retries)
           THEN /\ Aborts("ApolloError: rate limit")
                /\ UNCHANGED sleepLog
           ELSE IF ~DelayAccepted(hdr)
           THEN /\ gpc' = "raised"
                /\ pc' = "crashed"
                /\ failure' = "ValueError"
                /\ UNCHANGED sleepLog
           ELSE /\ sleepLog' = Log(sleepLog, [kind |-> "retry", page |-> page,
                                              attempt |-> attempt + 1,
                                              delay |-> RetryDelay(hdr, attempt + 1)])
                /\ UNCHANGED <<gpc, pc, failure>>
    /\ UNCHANGED <<page, people, total_pages, idx>>
    /\ UNCHANGED <<mainVars, fetched, yielded, fileVars, envVars>>

\* api.py:267-281  a success whose body is not JSON: ApolloError
RequestNonJson ==
    /\ CanRequest
    /\ "nonjson" \in provider.faults
    /\ attempt' = attempt + 1
    /\ httpLog' = Sent(200, NoHeader)
    /\ Aborts("ApolloError: non-JSON")
    /\ UNCHANGED <<page, people, total_pages, idx>>
    /\ UNCHANGED <<mainVars, sleepLog, fetched, yielded, fileVars, envVars>>

\* api.py:267, 113-118  a JSON success: the page is taken; an empty record
\* list ends the generator, otherwise the for loop over people starts
RequestOk ==
    /\ CanRequest
    /\ \E ps \in provider.pages, tp \in provider.hints :
        /\ attempt' = attempt + 1
        /\ httpLog' = Sent(200, NoHeader)
        /\ fetched' = Log(fetched, [page |-> page, people |-> ps, total_pages |-> tp])
        /\ people' = ps
        /\ total_pages' = tp
        /\ idx' = 1
        /\ IF PageEmpty(ps)
           THEN GenReturns
           ELSE /\ gpc' = "yield"
                /\ pc' = pc
    /\ UNCHANGED <<page, failure>>
    /\ UNCHANGED <<mainVars, sleepLog, yielded, fileVars, envVars>>

\* api.py:118-119  yield person: the consumer receives the next record
GenYield ==
    /\ ConsumerWaiting
    /\ gpc = "yield"
    /\ idx <= Len(people)
    /\ person' = Yield(people, idx)
    /\ idx' = idx + 1
    /\ yielded' = Log(yielded, Yield(people, idx))
    /\ pc' = "body"
    /\ UNCHANGED <<seen_emails_existing, seen_emails, newly_seen, results>>
    /\ UNCHANGED <<gpc, page, people, total_pages, attempt>>
    /\ UNCHANGED <<httpLog, sleepLog, fetched, fileVars, envVars, failure>>

\* api.py:121-128  after the last record of a page: stop on the total_pages
\* hint, else advance the cursor and sleep request_delay when it is not 0
GenPageEnd ==
    /\ ConsumerWaiting
    /\ gpc = "yield"
    /\ idx > Len(people)
    /\ IF LastPage(total_pages, page)
       THEN /\ GenReturns
            /\ UNCHANGED <<page, sleepLog>>
       ELSE /\ page' = NextPage(page)
            /\ sleepLog' = IF cfg.request_delay # 0
                           THEN Log(sleepLog, [kind |-> "page", page |-> page + 1,
                                               attempt |-> 0,
                                               delay |-> cfg.request_delay])
                           ELSE sleepLog
            /\ gpc' = "top"
            /\ pc' = pc
    /\ UNCHANGED <<people, total_pages, idx, attempt>>
    /\ UNCHANGED <<mainVars, httpLog, fetched, yielded, fileVars, envVars, failure>>

-----------------------------------------------------------------------------
(* The next invocation of the program *)

\* the set of normalized emails of the rows of an output file
Exported(csv) == {Normalize(csv.rows[i].email) : i \in 1..Len(csv.rows)}

\* after a successful run the program is started again, on the files the
\* run left (cli.py:324)
NextRun ==
    /\ pc = "done"
    /\ run < MaxRuns
    /\ run' = run + 1
    /\ prevExport' = Exported(outFile)
    /\ pc' = "load"
    /\ seen_emails_existing' = {}
    /\ seen_emails' = {}
    /\ newly_seen' = {}
    /\ results' = <<>>
    /\ person' = NoPerson
    /\ gpc' = "idle"
    /\ page' = 1
    /\ people' = <<>>
    /\ total_pages' = None
    /\ idx' = 1
    /\ attempt' = 0
    /\ failure' = NoFailure
    /\ httpLog' = <<>>
    /\ sleepLog' = <<>>
    /\ fetched' = <<>>
    /\ yielded' = <<>>
    /\ writes' = {}
    /\ filesAtStart' = FilesNow(seenFile, outFile)
    /\ UNCHANGED <<cfg, provider, history, seenFile, outFile, probe>>

\* one step of one invocation
Run ==
    \/ LoadSeen
    \/ GatherStart
    \/ GenTop
    \/ RequestException
    \/ RequestRejected
    \/ RequestNonJson
    \/ RequestOk
    \/ GenYield
    \/ Body
    \/ GenPageEnd
    \/ WriteCsv
    \/ SaveSeen

Next == Run \/ NextRun

\* the pipeline, started again after each successful run
Spec == Init /\ [][Next]_vars

\* one invocation, seen from the paginator
SpecPaging == InitPaging /\ [][Run]_vars

\* one invocation, seen from the transport
SpecRetry == InitRetry /\ [][Run]_vars

\* one invocation that keeps running while it can: the program is a single
\* thread, and every blocking call (a request with timeout=60, a sleep)
\* returns
SpecFair == InitFair /\ [][Run]_vars /\ WF_vars(Run)

-----------------------------------------------------------------------------
(* _save_seen_emails and _load_seen_emails on their own (cli.py:197-220) *)

\* the characters of the emails tried: letters and the line break
EmailChars == {"a", "b", "\n"}

\* emails as the pipeline hands them to _save_seen_emails: not empty,
\* trimmed and lower-cased (cli.py:254-257)
EmailStrings ==
    {e \in SeqsUpTo(EmailChars, MaxEmailLen) : e # <<>> /\ Normalize(e) = e}

\* the sets of at most n such emails
RECURSIVE EmailSets(_)
EmailSets(n) ==
    IF n = 0 THEN {{}}
    ELSE LET smaller == EmailSets(n - 1)
         IN smaller \cup {T \cup {e} : T \in smaller, e \in EmailStrings}

\* a set of emails is about to be saved
InitFile ==
    /\ cfg \in Configs({None}, {None}, {0}, {0})
    /\ provider = PipelineProvider
    /\ history = TRUE
    /\ run = 1
    /\ seenFile = AbsentFile
    /\ outFile = AbsentCsv
    /\ prevExport = {}
    /\ writes = {}
    /\ filesAtStart = FilesNow(seenFile, outFile)
    /\ probe \in {[NoProbe EXCEPT !.stage = "input", !.emails = S] :
                    S \in EmailSets(MaxEmails)}
    /\ Fresh

\* cli.py:213-220  _save_seen_emails(path, S)
ProbeSave ==
    /\ probe.stage = "input"
    /\ probe' = [probe EXCEPT !.stage = "saved",
                              !.saved = save_seen_emails(probe.emails)]
    /\ UNCHANGED progVars

\* cli.py:197-210  _load_seen_emails(path) on the file just written
ProbeLoad ==
    /\ probe.stage = "saved"
    /\ probe' = [probe EXCEPT !.stage = "loaded",
                              !.loaded = load_seen_emails(probe.saved)]
    /\ UNCHANGED progVars

\* cli.py:213-220  _save_seen_emails(path, loaded): the loaded set saved again
ProbeResave ==
    /\ probe.stage = "loaded"
    /\ probe' = [probe EXCEPT !.stage = "resaved",
                              !.resaved = save_seen_emails(probe.loaded)]
    /\ UNCHANGED progVars

NextFile == ProbeSave \/ ProbeLoad \/ ProbeResave

\* save, load, save again, for every set of emails tried
SpecFile == InitFile /\ [][NextFile]_vars

-----------------------------------------------------------------------------
(* Properties *)

\* the records of a sequence of pages, one after the other
RECURSIVE Flatten(_)
Flatten(pages) ==
    IF pages = <<>> THEN <<>> ELSE Head(pages).people \o Flatten(Tail(pages))

IsPrefix(s, t) == Len(s) <= Len(t) /\ SubSeq(t, 1, Len(s)) = s

\* the normalized emails of the gathered records, in order
ResultEmails == [i \in 1..Len(results) |-> Normalize(results[i].email)]
RowEmails == [i \in 1..Len(outFile.rows) |-> Normalize(outFile.rows[i].email)]

NoRepeat(s) == \A i, j \in 1..Len(s) : i # j => s[i] # s[j]

\* the output file holds the rows of this run
Written == pc \in {"save", "done"}

\* the entries of a log that satisfy a test
Count(log, Test(_)) == Cardinality({i \in 1..Len(log) : Test(log[i])})

\* C1: comparing emails trimmed and lower-cased, no two gathered (or
\* exported) records of a run have the same email, and none has an email of
\* the seen set loaded at the start of the run; this holds after every
\* processed record.
C1_NoDuplicateNoSeen ==
    /\ NoRepeat(ResultEmails)
    /\ \A i \in 1..Len(results) : ResultEmails[i] \notin seen_emails_existing
    /\ Written => /\ NoRepeat(RowEmails)
                  /\ \A i \in 1..Len(outFile.rows) : RowEmails[i] \notin seen_emails_existing

\* C1 happens: two records were gathered from a run that loaded a non-empty
\* seen set, met a record of that set and met the same email twice.
C1_Witness ==
    /\ Written
    /\ Len(outFile.rows) >= 2
    /\ seen_emails_existing # {}
    /\ \E i \in 1..Len(yielded) : Normalize(EmailOf(yielded[i])) \in seen_emails_existing
    /\ \E i, j \in 1..Len(yielded) :
         /\ i < j
         /\ Normalize(EmailOf(yielded[i])) = Normalize(EmailOf(yielded[j]))
         /\ Normalize(EmailOf(yielded[i])) \in newly_seen

\* C2: no email (normalized) exported by a successful run is exported by the
\* next successful run, which loads the seen-file as the first left it.
C2_NoReExport ==
    (run >= 2 /\ Written) => Exported(outFile) \cap prevExport = {}

\* C3: the yielded records are, in order, the records of the pages fetched:
\* always a prefix of them, all of the earlier pages before the next page is
\* asked for, and all of them once the generator has ended.
C3_YieldedIsConcatenation ==
    LET all == Flatten(fetched)
    IN /\ IsPrefix(yielded, all)
       /\ gpc \in {"top", "request", "done", "raised"} => yielded = all
       /\ gpc = "yield" => Len(yielded) = Len(all) - Len(people) + (idx - 1)

\* C3 happens: the generator ended after two pages of different records.
C3_Witness ==
    /\ gpc = "done"
    /\ Len(fetched) >= 2
    /\ fetched[1].people = <<PA, PB>>
    /\ fetched[2].people = <<PB>>
    /\ yielded = <<PA, PB, PB>>

\* C4: with max_pages set, no HTTP request carries a page number above it
\* (none at all is sent when max_pages = 0).
C4_NeverBeyondMaxPages ==
    cfg.max_pages # None =>
        \A i \in 1..Len(httpLog) : httpLog[i].page <= cfg.max_pages

\* C4 happens: the cap stopped a generator that had fetched its last allowed
\* page after a retried 429.
C4_Witness ==
    /\ cfg.max_pages = 1
    /\ gpc = "done"
    /\ page = 2
    /\ Len(httpLog) = 2
    /\ httpLog[1].status = 429
    /\ fetched[1].people # <<>>

\* C5: an empty page is the last thing the generator does: it is the last
\* page fetched and the last request sent, the generator has returned, and
\* every record fetched before it has been yielded, whatever total_pages
\* says.
C5_EmptyPageStops ==
    \A i \in 1..Len(fetched) :
        fetched[i].people = <<>> =>
            /\ i = Len(fetched)
            /\ gpc = "done"
            /\ httpLog[Len(httpLog)].page = fetched[i].page
            /\ yielded = Flatten(fetched)

\* C5 happens: the run went on to its end after an empty first page whose
\* hint reported two pages.
C5_Witness ==
    /\ pc = "done"
    /\ Len(fetched) = 1
    /\ fetched[1].people = <<>>
    /\ fetched[1].total_pages = 2

\* every response so far reported total_pages = n
AllHint(n) == fetched # <<>> /\ \A i \in 1..Len(fetched) : fetched[i].total_pages = n

\* C6 as stated: with max_pages unset and total_pages = N on every response,
\* a generator that has returned has fetched exactly the pages 1..N.
C6_ExactlyNPages ==
    \A n \in 0..MaxPages :
        (cfg.max_pages = None /\ AllHint(n) /\ gpc = "done") =>
            /\ Len(fetched) = n
            /\ \A i \in 1..Len(fetched) : fetched[i].page = i

\* C6 amended: with max_pages unset, total_pages = N >= 1 on every response
\* and no response empty, no page above N is requested, and a generator that
\* has returned has fetched exactly the pages 1..N.
C6_ExactlyNPagesNonEmpty ==
    \A n \in 1..MaxPages :
        (/\ cfg.max_pages = None
         /\ AllHint(n)
         /\ \A i \in 1..Len(fetched) : fetched[i].people # <<>>) =>
            /\ \A j \in 1..Len(httpLog) : httpLog[j].page <= n
            /\ gpc = "done" =>
                 /\ Len(fetched) = n
                 /\ \A i \in 1..Len(fetched) : fetched[i].page = i

\* C6 happens: two pages fetched from a provider reporting total_pages = 2,
\* and the generator returned.
C6_Witness ==
    /\ cfg.max_pages = None
    /\ gpc = "done"
    /\ AllHint(2)
    /\ Len(fetched) = 2
    /\ fetched[2].people # <<>>

\* the paginator requests nothing more: it returned, raised, or was dropped
\* by its consumer
Stopped == gpc \in {"done", "raised", "closed"}

\* C7 as stated: whatever the provider answers, and with max_pages set or
\* not, the paginator eventually stops.
C7_AlwaysFinite == <>Stopped

\* C7 amended: with max_pages set the paginator eventually stops, whatever
\* the provider answers.
C7_FiniteWhenCapped == (cfg.max_pages # None) => <>Stopped

\* C7 happens: the cap ended a paginator whose provider never gave a reason
\* to stop.
C7_Witness ==
    /\ cfg.max_pages = MaxPages
    /\ gpc = "done"
    /\ page = MaxPages + 1
    /\ people # <<>>
    /\ total_pages = None

\* the requests, and the retry sleeps, of the _request call for page p
RequestsOf(p) == {i \in 1..Len(httpLog) : httpLog[i].page = p}
RetrySleepsOf(p) == {i \in 1..Len(sleepLog) : sleepLog[i].kind = "retry" /\ sleepLog[i].page = p}

\* C8: a _request call that was answered 429 on every attempt has ended with
\* the rate-limit error, after exactly max_retries + 1 requests and
\* max_retries sleeps.
C8_ExhaustedRetries ==
    (/\ gpc = "raised"
     /\ \A i \in RequestsOf(page) : httpLog[i].status = 429) =>
        /\ failure = "ApolloError: rate limit"
        /\ Cardinality(RequestsOf(page)) = cfg.max_retries + 1
        /\ Cardinality(RetrySleepsOf(page)) = cfg.max_retries

\* C8 for the Retry-After values float() and time.sleep() accept
C8_ExhaustedRetriesNumeric ==
    (/\ gpc = "raised"
     /\ \A i \in RequestsOf(page) :
          /\ httpLog[i].status = 429
          /\ httpLog[i].retry_after \in {NoHeader, Header(<<"2">>)}) =>
        /\ failure = "ApolloError: rate limit"
        /\ Cardinality(RequestsOf(page)) = cfg.max_retries + 1
        /\ Cardinality(RetrySleepsOf(page)) = cfg.max_retries

\* the delay C9 gives for a 429 answered on attempt a: the header's seconds,
\* else 1.5 * 2^(a-1) seconds (in tenths: 15, 30, 60, ...)
RECURSIVE Doubled(_, _)
Doubled(x, times) == IF times = 0 THEN x ELSE Doubled(x + x, times - 1)

ExpectedDelay(e) ==
    IF e.retry_after = Header(<<"2">>) THEN 20
    ELSE IF e.retry_after = NoHeader THEN Doubled(15, e.attempt - 1)
    ELSE -1

\* C9: every attempt after the first follows exactly one sleep, made for the
\* 429 of the attempt before, of the Retry-After value or else
\* backoff_factor * 2^(attempt-1); a page returned after k 429 answers was
\* returned after exactly k sleeps.
C9_OneSleepPerRetry ==
    /\ \A i \in 1..Len(httpLog) :
         httpLog[i].attempt >= 2 =>
           /\ i >= 2
           /\ httpLog[i - 1].status = 429
           /\ httpLog[i - 1].page = httpLog[i].page
           /\ httpLog[i - 1].attempt = httpLog[i].attempt - 1
           /\ \E j \in 1..Len(sleepLog) :
                /\ sleepLog[j].kind = "retry"
                /\ sleepLog[j].page = httpLog[i].page
                /\ sleepLog[j].attempt = httpLog[i].attempt - 1
                /\ sleepLog[j].delay = ExpectedDelay(httpLog[i - 1])
    /\ \A j, k \in 1..Len(sleepLog) :
         (/\ sleepLog[j].kind = "retry"
          /\ sleepLog[k].kind = "retry"
          /\ sleepLog[j].page = sleepLog[k].page
          /\ sleepLog[j].attempt = sleepLog[k].attempt) => j = k
    /\ \A j \in 1..Len(sleepLog) :
         sleepLog[j].kind = "retry" =>
           \E i \in 1..Len(httpLog) :
             /\ httpLog[i].status = 429
             /\ httpLog[i].page = sleepLog[j].page
             /\ httpLog[i].attempt = sleepLog[j].attempt
    /\ \A f \in 1..Len(fetched) :
         Cardinality(RetrySleepsOf(fetched[f].page))
           = Cardinality({i \in RequestsOf(fetched[f].page) : httpLog[i].status = 429})

\* C9 happens: 429 with Retry-After: 2, then 200: one sleep of 2 seconds
\* and the page is returned; and a 429 without the header on a second attempt.
C9_Witness ==
    /\ Len(httpLog) >= 2
    /\ httpLog[1].status = 429
    /\ httpLog[1].retry_after = Header(<<"2">>)
    /\ httpLog[2].status = 200
    /\ Len(fetched) >= 1
    /\ fetched[1].page = 1
    /\ Len(sleepLog) >= 1
    /\ sleepLog[1] = [kind |-> "retry", page |-> 1, attempt |-> 1, delay |-> 20]
    /\ RetrySleepsOf(1) = {1}
    /\ \E j \in 1..Len(sleepLog) : sleepLog[j].attempt = 2 /\ sleepLog[j].delay = 30

\* C10: a transport exception or an error status other than 429 is the last
\* request of the run: the call raises ApolloError, the run aborts, and no
\* sleep is made for that attempt.
C10_NoRetryOfOtherFailures ==
    \A i \in 1..Len(httpLog) :
        httpLog[i].status \notin {200, 429} =>
            /\ i = Len(httpLog)
            /\ gpc = "raised"
            /\ pc = "aborted"
            /\ failure \in {"ApolloError: transport", "ApolloError: status"}
            /\ \A j \in 1..Len(sleepLog) :
                 ~(sleepLog[j].page = httpLog[i].page /\ sleepLog[j].attempt = httpLog[i].attempt)
            /\ Len(sleepLog) = Count(SubSeq(httpLog, 1, i - 1), LAMBDA e : e.status = 429)
                               + Count(sleepLog, LAMBDA e : e.kind = "page")

\* C10 happens: a status 500 on the second page, after a retried 429 on the
\* first, ended the run.
C10_Witness ==
    /\ Len(httpLog) = 3
    /\ httpLog[1].status = 429
    /\ httpLog[2].status = 200
    /\ httpLog[3].status = 500
    /\ httpLog[3].page = 2
    /\ pc = "aborted"

\* the ways a page fetch fails with ApolloError (api.py:242, 249, 260, 281)
ApiFailures ==
    {"ApolloError: rate limit", "ApolloError: status",
     "ApolloError: transport", "ApolloError: non-JSON"}

\* C11: once a page fetch has failed with an ApolloError the run is over
\* without having written either file: the output file and the seen-file
\* are what they were when the run started.
C11_AbortWritesNothing ==
    failure \in ApiFailures =>
        /\ pc = "aborted"
        /\ writes = {}
        /\ seenFile = filesAtStart.seen
        /\ outFile = filesAtStart.out

\* C11 happens: the second run fails on its second page, after it gathered a
\* record from the first; the files of the first run are still there.
C11_Witness ==
    /\ run = 2
    /\ failure \in ApiFailures
    /\ page = 2
    /\ results # <<>>
    /\ newly_seen # {}
    /\ outFile.exists
    /\ outFile.rows # results
    /\ seenFile.exists

\* C12: a run that completes has written the output file with exactly the
\* gathered records (no rows when none was gathered), and has written the
\* seen-file if and only if it found a new email; if it found none the
\* seen-file is what it was when the run started.
C12_CompletionWrites ==
    pc = "done" =>
        /\ "output" \in writes
        /\ outFile = [exists |-> TRUE, rows |-> results]
        /\ ("seen" \in writes) <=> (newly_seen # {})
        /\ newly_seen # {} =>
              seenFile = save_seen_emails(seen_emails_existing \cup newly_seen)
        /\ newly_seen = {} => seenFile = filesAtStart.seen

\* C12 happens: the second run is offered records and finds no new email;
\* it overwrites the rows of the first run with a header-only file and
\* leaves the seen-file alone.
C12_Witness ==
    /\ run = 2
    /\ pc = "done"
    /\ yielded # <<>>
    /\ newly_seen = {}
    /\ filesAtStart.out.rows # <<>>
    /\ outFile = [exists |-> TRUE, rows |-> <<>>]
    /\ seenFile = filesAtStart.seen
    /\ seenFile.exists

\* C13: a request is sent only while the consumer is waiting in next() for
\* a record: every record of every page fetched so far has been yielded and
\* its loop body has finished, and the consumer has not stopped (the
\* max_contacts break closes the generator).  So no request follows the
\* step in which the consumer stops pulling.
C13_PullDriven ==
    [][Len(httpLog') > Len(httpLog) =>
         /\ pc = "pull"
         /\ gpc = "request"
         /\ yielded = Flatten(fetched)
         /\ ~(results # <<>> /\ ContactsReached(cfg.max_contacts, Len(results)))]_vars

\* C13 happens: max_contacts was reached on the last record of the first
\* page, a second page was allowed, and the run completed on one request.
C13_Witness ==
    /\ pc = "done"
    /\ gpc = "closed"
    /\ cfg.max_pages = MaxPages
    /\ cfg.max_contacts = Len(results)
    /\ page = 1
    /\ people # <<>>
    /\ idx = Len(people) + 1
    /\ person = people[Len(people)]
    /\ Len(httpLog) = 1

\* C14: with max_contacts set (any integer >= 0) a run never holds more
\* gathered records than max_contacts, and never exports more.
C14_AtMostMaxContacts ==
    cfg.max_contacts # None =>
        /\ Len(results) <= cfg.max_contacts
        /\ "output" \in writes => Len(outFile.rows) <= cfg.max_contacts

\* for max_contacts >= 1 the limit does hold; only max_contacts = 0 is
\* exceeded, by the one record appended before the first test
C14_AtMostPositiveMaxContacts ==
    /\ cfg.max_contacts >= 1 => Len(results) <= cfg.max_contacts
    /\ cfg.max_contacts = 0 => Len(results) <= 1

\* the records of a sequence that a filter keeps, in the order of the
\* sequence: a record is kept when its email (the email field, else
\* primary_email), trimmed and lower-cased, is not empty, is not in `seen`
\* and is not the trimmed, lower-cased email of a record kept before it
RECURSIVE Filtered(_, _, _)
Filtered(records, seen, kept) ==
    IF records = <<>>
    THEN kept
    ELSE LET r == Head(records)
             raw == IF r.email = <<>> THEN r.primary_email ELSE r.email
             e == Lower(Strip(raw))
         IN IF e # <<>> /\ e \notin seen
            THEN Filtered(Tail(records), seen \cup {e}, Append(kept, [email |-> raw]))
            ELSE Filtered(Tail(records), seen, kept)

\* the yielded records whose loop body has finished
Processed ==
    IF pc = "body" THEN SubSeq(yielded, 1, Len(yielded) - 1) ELSE yielded

\* C15: the gathered records are the records the paginator has yielded,
\* filtered against the loaded seen set and the emails gathered before, in
\* provider order; a max_contacts cut-off only ends the sequence early.
C15_GatheredIsFiltered ==
    pc \notin {"load", "gather"} =>
        results = Filtered(Processed, seen_emails_existing, <<>>)

\* C15 happens: without max_contacts, a run over two pages completed: of
\* four records the second repeats the first in another case, the third has
\* only primary_email, and three are gathered in provider order.
C15_Witness ==
    /\ pc = "done"
    /\ gpc = "done"
    /\ cfg.max_contacts = None
    /\ yielded = <<PA, PAup, PPrim, PLines>>
    /\ results = <<[email |-> PA.email], [email |-> PPrim.primary_email],
                   [email |-> PLines.email]>>

\* an email with a line break inside
HasLineBreak(e) == \E i \in 1..Len(e) : IsLineBreak(e[i])

\* C16: for every set S of non-empty, trimmed, lower-cased emails, loading
\* the file written from S gives S again, and saving what was loaded writes
\* the same file.
C16_RoundTrip ==
    /\ probe.stage \in {"loaded", "resaved"} => probe.loaded = probe.emails
    /\ probe.stage = "resaved" => probe.resaved = probe.saved

\* the round trip does hold for the sets whose emails have no line break
\* inside
C16_RoundTripOfLines ==
    (\A e \in probe.emails : ~HasLineBreak(e)) => C16_RoundTrip

\* C17: the cursor starts at 1 and is never below 1; the pages fetched are
\* 1, 2, 3, ... in this order; the cursor is the number of the last page
\* fetched, or one more once every page fetched so far was not empty; and
\* each request after the first is either the next attempt at the same page
\* after a 429, or the first attempt at the next page after a page that was
\* fetched with status 200 and was not empty.
C17_CursorCounts ==
    /\ page >= 1
    /\ \A i \in 1..Len(fetched) : fetched[i].page = i
    /\ page \in {Len(fetched), Len(fetched) + 1}
    /\ (fetched # <<>> /\ page = Len(fetched) + 1) =>
          \A i \in 1..Len(fetched) : fetched[i].people # <<>>
    /\ httpLog # <<>> => httpLog[1].page = 1 /\ httpLog[1].attempt = 1
    /\ \A i \in 2..Len(httpLog) :
         LET a == httpLog[i - 1]
             b == httpLog[i]
         IN \/ /\ b.page = a.page
               /\ a.status = 429
               /\ b.attempt = a.attempt + 1
            \/ /\ b.page = a.page + 1
               /\ a.status = 200
               /\ b.attempt = 1
               /\ Len(fetched) >= a.page
               /\ fetched[a.page].people # <<>>

\* C17 happens: pages 1 and 2 were fetched, each after a 429 retry, and the
\* cursor stands at 3 when the page cap ends the paginator.
C17_Witness ==
    /\ gpc = "done"
    /\ page = 3
    /\ Len(fetched) = 2
    /\ Len(httpLog) = 4
    /\ httpLog[1].status = 429 /\ httpLog[1].page = 1
    /\ httpLog[3].status = 429 /\ httpLog[3].page = 2
    /\ httpLog[4].status = 200 /\ httpLog[4].page = 2

\* the set of emails a seen-file holds, read the way the program reads it
Persisted(file) == load_seen_emails(file)

\* C18: when a run has written the seen-file, the set the file holds is the
\* set loaded when the run started together with the normalized emails the
\* run exported; so the file holds every email it held before the run.
C18_PersistedIsUnion ==
    (pc = "done" /\ "seen" \in writes) =>
        /\ Persisted(seenFile) = seen_emails_existing \cup Exported(outFile)
        /\ Persisted(filesAtStart.seen) \subseteq Persisted(seenFile)

\* what does hold: the set main hands to _save_seen_emails is that union,
\* and no line of the seen-file is ever lost; the file differs from the
\* union only by exported emails with a line break inside
C18_HandedSetIsUnion ==
    /\ Persisted(filesAtStart.seen) \subseteq Persisted(seenFile)
    /\ (pc = "done" /\ "seen" \in writes) =>
          /\ seenFile = save_seen_emails(seen_emails_existing \cup Exported(outFile))
          /\ (\A e \in Exported(outFile) : ~HasLineBreak(e)) =>
                Persisted(seenFile) = seen_emails_existing \cup Exported(outFile)

\* the inter-page sleeps of the run, and the pages it has requested
PageSleeps == {j \in 1..Len(sleepLog) : sleepLog[j].kind = "page"}
PagesRequested == {httpLog[i].page : i \in 1..Len(httpLog)}

\* the sleeps lie between the page fetches
SleepsBetween ==
    /\ \A j \in PageSleeps : sleepLog[j].page \in PagesRequested
    /\ httpLog # <<>> => Cardinality(PageSleeps) = Cardinality(PagesRequested) - 1

\* C19: when the paginator has stopped, every inter-page sleep it made was
\* followed by a request for the next page, so the pages it requested are
\* one more than its inter-page sleeps, whatever made it stop.
C19_SleepsBetweenFetches ==
    (Stopped /\ cfg.request_delay # 0) => SleepsBetween

\* this does hold for every stop but the max_pages cap: an empty page, the
\* total_pages hint, a failed request
C19_SleepsBetweenFetchesUncapped ==
    (/\ Stopped
     /\ cfg.request_delay # 0
     /\ ~(gpc = "done" /\ page > 1 /\ PageCapReached(cfg.max_pages, page)))
    => SleepsBetween

\* the 429 answers a page has received, and those among the first i requests
RateLimitsOf(p) == {i \in RequestsOf(p) : httpLog[i].status = 429}
RateLimitsUpTo(p, i) == {k \in RateLimitsOf(p) : k <= i}

\* C20: the first request for every page is attempt 1; the sleep after the
\* r-th 429 of a page sent without Retry-After is backoff_factor * 2^(r-1),
\* r counted within the page; and the run ends with the rate-limit error
\* exactly when one page has received more than max_retries 429 answers,
\* however many the run has received in all.
C20_AttemptPerPage ==
    /\ \A i \in 1..Len(httpLog) :
         (i = 1 \/ httpLog[i].page # httpLog[i - 1].page) => httpLog[i].attempt = 1
    /\ \A i \in 1..Len(httpLog) :
         httpLog[i].attempt = Cardinality(RateLimitsUpTo(httpLog[i].page, i - 1)) + 1
    /\ \A j \in 1..Len(sleepLog) :
         sleepLog[j].kind = "retry" =>
           \E i \in RateLimitsOf(sleepLog[j].page) :
             /\ httpLog[i].attempt = sleepLog[j].attempt
             /\ httpLog[i].retry_after = NoHeader =>
                   sleepLog[j].delay
                     = Doubled(backoff_factor,
                               Cardinality(RateLimitsUpTo(sleepLog[j].page, i)) - 1)
    /\ \A p \in 1..page :
         Cardinality(RateLimitsOf(p)) > cfg.max_retries
           <=> (p = page /\ failure = "ApolloError: rate limit")

\* C20 happens: with max_retries = 1 the run absorbed two 429 answers, one
\* on each page, slept 1.5 seconds after each, fetched both pages and ended
\* without a failure.
C20_Witness ==
    /\ cfg.max_retries = 1
    /\ gpc = "done"
    /\ failure = NoFailure
    /\ Len(fetched) = 2
    /\ RateLimitsOf(1) = {1}
    /\ RateLimitsOf(2) = {3}
    /\ sleepLog = <<[kind |-> "retry", page |-> 1, attempt |-> 1, delay |-> backoff_factor],
                    [kind |-> "retry", page |-> 2, attempt |-> 1, delay |-> backoff_factor]>>

\* C21: in every state of a run newly_seen is the set of the normalized
\* emails of the records gathered so far, shares no email with the
\* normalized loaded set, and has as many elements as there are gathered
\* records.
C21_NewlySeenIsGathered ==
    /\ newly_seen = {Normalize(results[i].email) : i \in 1..Len(results)}
    /\ newly_seen \cap {Normalize(e) : e \in seen_emails_existing} = {}
    /\ Cardinality(newly_seen) = Len(results)

\* C21 happens: in the middle of a run that loaded "b", four records have
\* been processed: two were gathered, one repeated a gathered email in
\* another case and one had an email of the loaded set.
C21_Witness ==
    /\ pc = "pull"
    /\ seen_emails_existing = {<<"b">>}
    /\ yielded = <<PA, PAup, PPrim, PLines>>
    /\ Len(results) = 2
    /\ newly_seen = {<<"a">>, <<"a", "\n", "b">>}

=============================================================================
